---- MODULE Spec2Model ----
(***************************************************************************)
(* A model of the 3D VAE training driver (code/train_gradevae.py, main)     *)
(* and of the autoencoder it trains (code/models/aekl_no_attention.py).     *)
(*                                                                          *)
(* Tensors are modelled by their shape (batch, channel, depth, height,      *)
(* width), by the data they were computed from and by the sequence of       *)
(* sub-modules of AutoencoderKL they went through; weights are modelled by  *)
(* the number of optimizer updates applied to them.  State-dict keys are    *)
(* sequences of the dot-separated components of the PyTorch key.            *)
(*                                                                          *)
(* The training loop addresses the network as vae.module, an attribute      *)
(* that exists only on the distributed wrapper accelerator.prepare returns  *)
(* in a distributed launch; the model is of such a launch.                  *)
(***************************************************************************)
EXTENDS Integers, Sequences, FiniteSets, TLC

\* ------------------------------------------------------------------ bounds
MaxSteps == 3
MaxEvery == 2
MaxBatches == 2
MaxValBatches == 2
\* the largest spatial size of a volume given to the forward pass
MaxDim == 16
\* the largest number of processes of a distributed launch
MaxProcs == 2

\* --------------------------------------------------------- decimal strings
Digit == <<"0", "1", "2", "3", "4", "5", "6", "7", "8", "9">>

RECURSIVE Str(_)
\* str(n) of a natural number
Str(n) == IF n < 10 THEN Digit[n + 1] ELSE Str(n \div 10) \o Digit[(n % 10) + 1]

RECURSIVE ZeroPad(_, _)
ZeroPad(s, width) == IF Len(s) >= width THEN s ELSE ZeroPad("0" \o s, width)

CkptWidth == 7
\* f"{global_step:07d}"
Format07d(n) == ZeroPad(Str(n), CkptWidth)

\* ------------------------------------------------------ the network layers
embed_dim == 3
enc_in_channels == 1
n_channels == 64
z_channels == 3
dec_out_channels == 1
ch_mult == <<1, 2, 2, 2>>
num_res_blocks == 2
num_groups == 32

Conv3d(cin, cout, k, s, p) ==
    [type |-> "Conv3d", cin |-> cin, cout |-> cout, k |-> k, stride |-> s, pad |-> p]
Normalize(c) ==
    [type |-> "GroupNorm", cin |-> c, cout |-> c, k |-> 0, stride |-> 0, pad |-> 0]
ResBlock(cin, cout) ==
    [type |-> "ResBlock", cin |-> cin, cout |-> cout, k |-> 3, stride |-> 1, pad |-> 1]
Downsample(c) ==
    [type |-> "Downsample", cin |-> c, cout |-> c, k |-> 3, stride |-> 2, pad |-> 0]
Upsample(c) ==
    [type |-> "Upsample", cin |-> c, cout |-> c, k |-> 3, stride |-> 1, pad |-> 1]

RECURSIVE ResBlocks(_, _, _)
\* for _ in range(num_res_blocks): blocks.append(ResBlock(block_in_ch, block_out_ch)); block_in_ch = block_out_ch
ResBlocks(cin, cout, n) ==
    IF n = 0 THEN <<>> ELSE <<ResBlock(cin, cout)>> \o ResBlocks(cout, cout, n - 1)

\* block_in_ch after the res blocks of one resolution
AfterRes(cin, cout, n) == IF n = 0 THEN cin ELSE cout

RECURSIVE EncoderLevels(_, _, _, _)
\* for i in range(self.num_resolutions): ... (i is 0-based as in the code)
EncoderLevels(i, nch, mult, nres) ==
    IF i >= Len(mult) THEN <<>>
    ELSE LET in_ch_mult == <<1>> \o mult
             block_in_ch == nch * in_ch_mult[i + 1]
             block_out_ch == nch * mult[i + 1]
             last == AfterRes(block_in_ch, block_out_ch, nres)
         IN ResBlocks(block_in_ch, block_out_ch, nres)
            \o (IF i # Len(mult) - 1 THEN <<Downsample(last)>> ELSE <<>>)
            \o EncoderLevels(i + 1, nch, mult, nres)

\* Encoder.__init__: self.blocks
EncoderBlocks(cin, nch, zch, mult, nres) ==
    LET levels == EncoderLevels(0, nch, mult, nres)
        block_in_ch == IF nres = 0 THEN nch * (<<1>> \o mult)[Len(mult)]
                       ELSE nch * mult[Len(mult)]
    IN <<Conv3d(cin, nch, 3, 1, 1)>> \o levels
       \o <<Normalize(block_in_ch), Conv3d(block_in_ch, zch, 3, 1, 1)>>

RECURSIVE DecoderLevels(_, _, _, _)
\* for i in reversed(range(self.num_resolutions)): ...
DecoderLevels(i, block_in_ch, nch, mult) ==
    IF i < 0 THEN <<>>
    ELSE LET block_out_ch == nch * mult[i + 1]
             last == AfterRes(block_in_ch, block_out_ch, num_res_blocks)
         IN ResBlocks(block_in_ch, block_out_ch, num_res_blocks)
            \o (IF i # 0 THEN <<Upsample(last)>> ELSE <<>>)
            \o DecoderLevels(i - 1, last, nch, mult)

\* Decoder.__init__: self.blocks
DecoderBlocks(nch, zch, cout, mult) ==
    LET first == nch * mult[Len(mult)]
        last == IF num_res_blocks = 0 THEN first ELSE nch * mult[1]
    IN <<Conv3d(zch, first, 3, 1, 1)>> \o DecoderLevels(Len(mult) - 1, first, nch, mult)
       \o <<Normalize(last), Conv3d(last, cout, 3, 1, 1)>>

\* AutoencoderKL.__init__
encoder == EncoderBlocks(enc_in_channels, n_channels, z_channels, ch_mult, num_res_blocks)
decoder == DecoderBlocks(n_channels, z_channels, dec_out_channels, ch_mult)
quant_conv_mu == Conv3d(3, embed_dim, 1, 1, 0)
quant_conv_log_sigma == Conv3d(3, embed_dim, 1, 1, 0)
post_quant_conv == Conv3d(embed_dim, 3, 1, 1, 0)

\* ------------------------------------------------------------ forward pass
\* A tensor: ok is FALSE once a layer has rejected its input (PyTorch raises).
Tensor(shape, src, ops) == [ok |-> TRUE, shape |-> shape, src |-> src, ops |-> ops]

\* output size of a convolution along one axis; -1 when the kernel does not fit
ConvSize(n, k, s, p) == IF n + 2 * p < k THEN -1 ELSE ((n + 2 * p - k) \div s) + 1

\* Downsample without its F.pad
BlockSizeNoPad(b, n) ==
    CASE b.type = "Conv3d" -> ConvSize(n, b.k, b.stride, b.pad)
      [] b.type = "GroupNorm" -> n
      [] b.type = "ResBlock" -> ConvSize(ConvSize(n, 3, 1, 1), 3, 1, 1)
      [] b.type = "Downsample" -> ConvSize(n, b.k, b.stride, b.pad)
      [] b.type = "Upsample" -> ConvSize(2 * n, b.k, b.stride, b.pad)

\* the spatial sizes a block produces, from Conv3d / F.pad / F.interpolate
BlockSize(b, n) ==
    CASE b.type = "Conv3d" -> ConvSize(n, b.k, b.stride, b.pad)
      [] b.type = "GroupNorm" -> n
      [] b.type = "ResBlock" -> ConvSize(ConvSize(n, 3, 1, 1), 3, 1, 1)
      [] b.type = "Downsample" -> ConvSize(n + 1, b.k, b.stride, b.pad)
      [] b.type = "Upsample" -> ConvSize(2 * n, b.k, b.stride, b.pad)

\* block(x) for a tensor value x: the channel count must be the block's, GroupNorm
\* needs whole groups
BlockOut(b, x) ==
    LET sh == x.shape
        d == BlockSize(b, sh[3])
        h == BlockSize(b, sh[4])
        w == BlockSize(b, sh[5])
        fits == /\ x.ok
                /\ sh[2] = b.cin
                /\ d > 0 /\ h > 0 /\ w > 0
                /\ (b.type \in {"GroupNorm", "ResBlock"} =>
                      b.cin % num_groups = 0 /\ b.cout % num_groups = 0)
    IN IF fits THEN [x EXCEPT !.shape = <<sh[1], b.cout, d, h, w>>]
       ELSE [x EXCEPT !.ok = FALSE]

\* block(x); the argument is evaluated once and bound, as Python evaluates it
ApplyBlock(b, x) == CHOOSE y \in {BlockOut(b, v) : v \in {x}} : TRUE

RECURSIVE ApplyBlocks(_, _, _)
\* for block in self.blocks: x = block(x)   (from block i on)
ApplyBlocks(blocks, i, x) ==
    IF i > Len(blocks) THEN x ELSE ApplyBlocks(blocks, i + 1, ApplyBlock(blocks[i], x))

\* the tensor x, noted as having gone through sub-module name
Via(x, name) == CHOOSE y \in {[v EXCEPT !.ops = Append(v.ops, name)] : v \in {x}} : TRUE

\* Encoder.forward / Decoder.forward
EncoderForward(x) == Via(ApplyBlocks(encoder, 1, x), "encoder")
DecoderForward(x) == Via(ApplyBlocks(decoder, 1, x), "decoder")

\* AutoencoderKL.encode: h = self.encoder(x); z_mu = self.quant_conv_mu(h); return z_mu
encode(x) == Via(ApplyBlock(quant_conv_mu, EncoderForward(x)), "quant_conv_mu")

\* AutoencoderKL.decode
decode(z) == DecoderForward(Via(ApplyBlock(post_quant_conv, z), "post_quant_conv"))

\* AutoencoderKL.sampling: z_mu + eps * z_sigma
sampling(z_mu, z_sigma) ==
    CHOOSE z \in {[ok |-> m.ok /\ sg.ok /\ m.shape = sg.shape, shape |-> m.shape,
                    src |-> m.src, ops |-> <<"sampling">>, mu |-> m, sigma |-> sg] :
                    m \in {z_mu}, sg \in {z_sigma}} : TRUE

\* torch.nn.functional.mse_loss(a, b): one number, defined when the shapes agree
mse_loss(a, b, weights) ==
    CHOOSE l \in {[ok |-> u.ok /\ v.ok /\ u.shape = v.shape, src |-> u.src, params |-> weights] :
                    u \in {a}, v \in {b}} : TRUE

\* ---------------------------------------------------------- state-dict keys
ParamKeys(prefix) == <<prefix \o <<"weight">>, prefix \o <<"bias">>>>

\* the parameters a block registers, in registration order
BlockKeys(prefix, b) ==
    CASE b.type \in {"Conv3d", "GroupNorm"} -> ParamKeys(prefix)
      [] b.type = "ResBlock" ->
           ParamKeys(prefix \o <<"norm1">>) \o ParamKeys(prefix \o <<"conv1">>)
           \o ParamKeys(prefix \o <<"norm2">>) \o ParamKeys(prefix \o <<"conv2">>)
           \o (IF b.cin # b.cout THEN ParamKeys(prefix \o <<"nin_shortcut">>) ELSE <<>>)
      [] b.type \in {"Downsample", "Upsample"} -> ParamKeys(prefix \o <<"conv">>)

RECURSIVE ModuleListKeys(_, _, _)
\* nn.ModuleList: child i is named str(i) (0-based); from block i (1-based) on
ModuleListKeys(prefix, blocks, i) ==
    IF i > Len(blocks) THEN <<>>
    ELSE BlockKeys(prefix \o <<Str(i - 1)>>, blocks[i]) \o ModuleListKeys(prefix, blocks, i + 1)

\* AutoencoderKL(embed_dim=3).state_dict().keys()
FreshKeys ==
    ModuleListKeys(<<"encoder", "blocks">>, encoder, 1)
    \o ModuleListKeys(<<"decoder", "blocks">>, decoder, 1)
    \o BlockKeys(<<"quant_conv_mu">>, quant_conv_mu)
    \o BlockKeys(<<"quant_conv_log_sigma">>, quant_conv_log_sigma)
    \o BlockKeys(<<"post_quant_conv">>, post_quant_conv)

Range(s) == {s[i] : i \in 1..Len(s)}

\* the keys of vae.state_dict() in the loop: vae is the distributed wrapper, whose only
\* child is the network, registered as "module"
WrappedKeys == [i \in 1..Len(FreshKeys) |-> <<"module">> \o FreshKeys[i]]

\* key.startswith('vae.') ; key[len('vae.'):]
StartsWithVae(key) == Len(key) >= 2 /\ key[1] = "vae"
RemapKey(key) == IF StartsWithVae(key) THEN Tail(key) ELSE key

\* ------------------------------------------------------------ the data sets
\* cfg.train.batch_size
batch_size == 2
\* one volume of the data sets, (h, w, z, c)
Volume == <<160, 224, 160, 1>>
\* np.random.randint(0, 32): 0 <= random_start < 32
RandomStartEnd == 32
RandomStarts == {0, RandomStartEnd - 1}
\* relative_end = random_start + 128
CropLen == 128
\* val_gt[:, :, :, :, 16:144]
ValCropStart == 16
ValCropEnd == 144

Min(a, b) == IF a < b THEN a ELSE b
\* the length of x[a:b] along an axis of length n
SliceLen(n, a, b) == IF Min(b, n) > Min(a, n) THEN Min(b, n) - Min(a, n) ELSE 0

\* rearrange(t, "b h w z c -> b c h w z")
Rearrange(sh) == <<sh[1], sh[5], sh[2], sh[3], sh[4]>>
\* t[:, :, :, :, a:b]
CropLast(sh, a, b) == <<sh[1], sh[2], sh[3], sh[4], SliceLen(sh[5], a, b)>>

Src(set, ep, idx, start) == [set |-> set, epoch |-> ep, idx |-> idx, start |-> start]
NoTensor == [ok |-> FALSE, shape |-> <<0, 0, 0, 0, 0>>, src |-> Src("none", 0, 0, 0), ops |-> <<>>]
Batch == <<batch_size>> \o Volume

\* ---------------------------------------------------------------- the state
VARIABLES
    pc,          \* the position of main() in its loop
    cfg,         \* cfg.train: train_steps, log_every, ckpt_every, image_every, val_every
    loader_len,  \* len(loader), batches per epoch
    val_len,     \* len(val_loader)
    is_local_main_process,
    global_step, max_steps, epoch,
    step_loss, epoch_loss,
    batch_idx,   \* batches of the current pass over loader already drawn
    grad, z_gt, z_pred, loss,
    params,      \* the weights of vae, as the number of optimizer updates applied
    opt_state,   \* the AdamW moment estimates, as the number of updates they have seen
    training,    \* vae.training
    val_idx, val_loss, val_psnr,
    writer,      \* the SummaryWriter's records, in order
    ckpt_writes, \* the torch.save calls, in order
    fwd,         \* the forward pass followed block by block
    ld,          \* the weight-loading code followed key by key
    procs        \* the processes of a distributed launch, by rank + 1

loop_vars == <<pc, cfg, loader_len, val_len, is_local_main_process, global_step, max_steps,
               epoch, step_loss, epoch_loss, batch_idx, grad, z_gt, z_pred, loss, params,
               opt_state, training, val_idx, val_loss, val_psnr, writer, ckpt_writes>>
vars == <<loop_vars, fwd, ld, procs>>

FwdIdle == [pc |-> "idle", i |-> 0, x |-> NoTensor, input |-> NoTensor, ret |-> <<>>,
            called |-> <<>>]
LdIdle == [pc |-> "idle", i |-> 0, source |-> "none", new_state_dict |-> {},
           missing |-> {}, unexpected |-> {}]

\* the periods tried for log_every, ckpt_every, image_every and val_every
Everys == {1, MaxEvery}

\* main() up to the loop: lines 199-268
Init ==
    /\ pc = "while"
    /\ cfg \in [train_steps : 0..MaxSteps, log_every : Everys, ckpt_every : Everys,
                image_every : Everys, val_every : Everys]
    /\ loader_len \in {1, MaxBatches}
    /\ val_len \in {1, MaxValBatches}
    /\ is_local_main_process \in BOOLEAN
    /\ global_step = 0
    /\ max_steps = cfg.train_steps
    /\ step_loss = <<>>
    /\ epoch = 0
    /\ epoch_loss = <<>>
    /\ batch_idx = 0
    /\ grad = NoTensor /\ z_gt = NoTensor /\ z_pred = NoTensor
    /\ loss = [ok |-> FALSE, src |-> NoTensor.src, params |-> 0]
    /\ params = 0
    /\ opt_state = 0
    /\ training = TRUE
    /\ val_idx = 0 /\ val_loss = <<>> /\ val_psnr = <<>>
    /\ writer = <<>>
    /\ ckpt_writes = <<>>
    /\ fwd = FwdIdle
    /\ ld = LdIdle
    /\ procs = <<>>

\* writer.add_scalar(tag, mean(vals), step) / writer.add_image(tag, grid(imgs), step)
Scalar(tag, vals, step) == [kind |-> "scalar", tag |-> tag, step |-> step, vals |-> vals, imgs |-> <<>>]
Image(tag, imgs, step) == [kind |-> "image", tag |-> tag, step |-> step, vals |-> <<>>, imgs |-> imgs]
\* what the local main process writes; the other processes have no writer
Write(records) == IF is_local_main_process THEN writer \o records ELSE writer

\* ------------------------------------------------------- the training loop
\* while global_step < max_steps: (a new pass over loader) ... else: print("done!")
WhileCheck ==
    /\ pc = "while"
    /\ IF global_step < max_steps
       THEN pc' = "for" /\ batch_idx' = 0
       ELSE pc' = "done" /\ UNCHANGED batch_idx
    /\ UNCHANGED <<cfg, loader_len, val_len, is_local_main_process, global_step, max_steps,
                   epoch, step_loss, epoch_loss, grad, z_gt, z_pred, loss, params, opt_state,
                   training, val_idx, val_loss, val_psnr, writer, ckpt_writes, fwd, ld, procs>>

\* grad = rearrange(...); grad = grad[:, :, :, :, random_start:relative_end]
TrainInput(random_start) ==
    Tensor(CropLast(Rearrange(Batch), random_start, random_start + CropLen),
           Src("train", epoch, batch_idx, random_start), <<>>)

\* for grad in loader: the next batch (drop_last=True: loader_len whole batches)
NextBatch ==
    /\ pc = "for"
    /\ batch_idx < loader_len
    /\ \E random_start \in RandomStarts : grad' = TrainInput(random_start)
    /\ batch_idx' = batch_idx + 1
    /\ pc' = "forward"
    /\ UNCHANGED <<cfg, loader_len, val_len, is_local_main_process, global_step, max_steps,
                   epoch, step_loss, epoch_loss, z_gt, z_pred, loss, params, opt_state,
                   training, val_idx, val_loss, val_psnr, writer, ckpt_writes, fwd, ld, procs>>

\* for grad in loader: the loader is exhausted
LoaderExhausted ==
    /\ pc = "for"
    /\ batch_idx >= loader_len
    /\ pc' = "epoch_end"
    /\ UNCHANGED <<cfg, loader_len, val_len, is_local_main_process, global_step, max_steps,
                   epoch, step_loss, epoch_loss, batch_idx, grad, z_gt, z_pred, loss, params,
                   opt_state, training, val_idx, val_loss, val_psnr, writer, ckpt_writes,
                   fwd, ld, procs>>

\* z_gt = vae.module.encode(grad); z_pred = vae.module.decode(z_gt); loss = mse_loss(grad, z_pred)
Forward ==
    /\ pc = "forward"
    /\ z_gt' = encode(grad)
    /\ z_pred' = decode(z_gt')
    /\ loss' = mse_loss(grad, z_pred', params)
    /\ pc' = IF loss'.ok THEN "optimize" ELSE "raised"
    /\ UNCHANGED <<cfg, loader_len, val_len, is_local_main_process, global_step, max_steps,
                   epoch, step_loss, epoch_loss, batch_idx, grad, params, opt_state,
                   training, val_idx, val_loss, val_psnr, writer, ckpt_writes, fwd, ld, procs>>

\* opt_vae.step(): the weights after one more update
StepForgotten(p) == p
AdamWStep(p) == p + 1

\* opt_vae.zero_grad(); accelerator.backward(loss); opt_vae.step(); wait_for_everyone()
OptimizerStep ==
    /\ pc = "optimize"
    /\ params' = AdamWStep(params)
    /\ opt_state' = opt_state + 1
    /\ pc' = "count"
    /\ UNCHANGED <<cfg, loader_len, val_len, is_local_main_process, global_step, max_steps,
                   epoch, step_loss, epoch_loss, batch_idx, grad, z_gt, z_pred, loss,
                   training, val_idx, val_loss, val_psnr, writer, ckpt_writes, fwd, ld, procs>>

\* global_step += 1; step_loss.append(loss.item()); epoch_loss.append(loss.item())
CountStep ==
    /\ pc = "count"
    /\ global_step' = global_step + 1
    /\ step_loss' = Append(step_loss, loss)
    /\ epoch_loss' = Append(epoch_loss, loss)
    /\ pc' = "log"
    /\ UNCHANGED <<cfg, loader_len, val_len, is_local_main_process, max_steps, epoch,
                   batch_idx, grad, z_gt, z_pred, loss, params, opt_state, training,
                   val_idx, val_loss, val_psnr, writer, ckpt_writes, fwd, ld, procs>>

LogDueAfterFirst == global_step % cfg.log_every = 0 /\ global_step > 1
\* global_step % cfg.train.log_every == 0 and global_step > 0
LogDue == global_step % cfg.log_every = 0 /\ global_step > 0

\* Log loss values: gather, step_loss.clear(), add_scalar on the local main process
LogLoss ==
    /\ pc = "log"
    /\ IF LogDue
       THEN /\ writer' = Write(<<Scalar("loss/loss_simple_step", step_loss, global_step)>>)
            /\ step_loss' = <<>>
       ELSE UNCHANGED <<writer, step_loss>>
    /\ pc' = "ckpt"
    /\ UNCHANGED <<cfg, loader_len, val_len, is_local_main_process, global_step, max_steps,
                   epoch, epoch_loss, batch_idx, grad, z_gt, z_pred, loss, params, opt_state,
                   training, val_idx, val_loss, val_psnr, ckpt_writes, fwd, ld, procs>>

CkptDueBeforeIncrement == (global_step - 1) % cfg.ckpt_every = 0 /\ global_step > 0
\* global_step % cfg.train.ckpt_every == 0 and global_step > 0
CkptDue == global_step % cfg.ckpt_every = 0 /\ global_step > 0

\* ckpt_path = f"{ckpt_dir}/{global_step:07d}_gradvae.pt"
CkptPath == "checkpoints/" \o Format07d(global_step) \o "_gradvae.pt"

StaleCheckpoint == [sections |-> [k \in {"model"} |-> params - 1], state_dict_of |-> "wrapper"]
\* checkpoint = vae.state_dict(): the sections of training state the file holds, and
\* the module whose state dict it is (vae is the distributed wrapper)
Checkpoint == [sections |-> [k \in {"model"} |-> params], state_dict_of |-> "wrapper"]

\* Save checkpoint: on the local main process only
SaveCheckpoint ==
    /\ pc = "ckpt"
    /\ IF CkptDue /\ is_local_main_process
       THEN ckpt_writes' = Append(ckpt_writes,
                [path |-> CkptPath, checkpoint |-> Checkpoint, step |-> global_step])
       ELSE UNCHANGED ckpt_writes
    /\ pc' = "image"
    /\ UNCHANGED <<cfg, loader_len, val_len, is_local_main_process, global_step, max_steps,
                   epoch, step_loss, epoch_loss, batch_idx, grad, z_gt, z_pred, loss, params,
                   opt_state, training, val_idx, val_loss, val_psnr, writer, fwd, ld, procs>>

ImageDueOnPeriodOnly == global_step % cfg.image_every = 0
\* global_step % cfg.train.image_every == 0 or global_step == 1
ImageDue == global_step % cfg.image_every = 0 \/ global_step = 1

\* t[:N]
First(t, N) == CHOOSE r \in {[v EXCEPT !.shape[1] = Min(N, v.shape[1])] : v \in {t}} : TRUE

\* t.squeeze(): the axes of length one dropped
Squeeze(sh) == SelectSeq(sh, LAMBDA d : d # 1)
\* image[0].squeeze(): the first item of the batch, without its channel axis
FirstItem(t) == CHOOSE r \in {[v EXCEPT !.shape = Squeeze(Tail(v.shape))] : v \in {t}} : TRUE

\* get_middle_slice(image): for each of the first three axes, the slice at
\* shape[axis] // 2, squeezed; image.shape[axis] raises when the axis does not exist
get_middle_slice(image) ==
    CHOOSE slices \in
        {[axis \in 1..3 |->
            IF v.ok /\ axis <= Len(v.shape)
            THEN [ok |-> TRUE, shape |-> Squeeze([v.shape EXCEPT ![axis] = 1]), src |-> v.src,
                  ops |-> v.ops, mid_index |-> v.shape[axis] \div 2]
            ELSE [ok |-> FALSE, shape |-> <<>>, src |-> v.src, ops |-> v.ops, mid_index |-> 0]] :
         v \in {image}} : TRUE

\* the three add_image calls of a block: the x, y and z middle slices of (pred, gt)
Slices(prefix, pred, gt, step) ==
    CHOOSE records \in
        {<<Image(prefix \o "/x", <<p[1], g[1]>>, step), Image(prefix \o "/y", <<p[2], g[2]>>, step),
           Image(prefix \o "/z", <<p[3], g[3]>>, step)>> :
         p \in {get_middle_slice(FirstItem(pred))}, g \in {get_middle_slice(FirstItem(gt))}} : TRUE

\* image logging: vae.eval(); the slices of z_pred[:1] and grad[:1]; vae.train()
LogImages ==
    /\ pc = "image"
    /\ IF ImageDue
       THEN /\ writer' = Write(Slices("slice", First(z_pred, 1), First(grad, 1), global_step))
            /\ training' = TRUE
       ELSE UNCHANGED <<writer, training>>
    /\ pc' = "val"
    /\ UNCHANGED <<cfg, loader_len, val_len, is_local_main_process, global_step, max_steps,
                   epoch, step_loss, epoch_loss, batch_idx, grad, z_gt, z_pred, loss, params,
                   opt_state, val_idx, val_loss, val_psnr, ckpt_writes, fwd, ld, procs>>

ValDueAfterFirst == global_step % cfg.val_every = 0 /\ global_step > 1
\* global_step % cfg.train.val_every == 0 and global_step > 0
ValDue == global_step % cfg.val_every = 0 /\ global_step > 0

\* the validation block opens: vae.eval(); val_loss = []; val_psnr = []
ValBegin ==
    /\ pc = "val"
    /\ IF ValDue
       THEN /\ training' = FALSE
            /\ val_loss' = <<>> /\ val_psnr' = <<>>
            /\ val_idx' = 0
            /\ pc' = "val_for"
       ELSE /\ pc' = "sync"
            /\ UNCHANGED <<training, val_loss, val_psnr, val_idx>>
    /\ UNCHANGED <<cfg, loader_len, val_len, is_local_main_process, global_step, max_steps,
                   epoch, step_loss, epoch_loss, batch_idx, grad, z_gt, z_pred, loss, params,
                   opt_state, writer, ckpt_writes, fwd, ld, procs>>

\* val_gt = rearrange(...); val_gt = val_gt[:, :, :, :, 16:144]
ValInput ==
    Tensor(CropLast(Rearrange(Batch), ValCropStart, ValCropEnd),
           Src("val", 0, val_idx, ValCropStart), <<>>)

\* calculate_psnr_pt(img, img2, crop_border=0).mean().item(): asserts equal shapes
calculate_psnr_pt(img, img2, weights) ==
    CHOOSE r \in {[ok |-> u.ok /\ v.ok /\ u.shape = v.shape, src |-> v.src, params |-> weights] :
                    u \in {img}, v \in {img2}} : TRUE

\* for val_grad in val_loader: one batch (drop_last=False: every batch of val_loader)
ValBatch ==
    /\ pc = "val_for"
    /\ val_idx < val_len
    /\ z_gt' = encode(ValInput)
    /\ z_pred' = decode(z_gt')
    /\ loss' = mse_loss(ValInput, z_pred', params)
    /\ val_loss' = Append(val_loss, loss')
    /\ val_psnr' = Append(val_psnr, calculate_psnr_pt(z_pred', ValInput, params))
    /\ writer' = Write(Slices("val", z_pred', ValInput, global_step))
    /\ training' = TRUE
    /\ val_idx' = val_idx + 1
    /\ UNCHANGED <<pc, cfg, loader_len, val_len, is_local_main_process, global_step,
                   max_steps, epoch, step_loss, epoch_loss, batch_idx, grad, params,
                   opt_state, ckpt_writes, fwd, ld, procs>>

\* after the validation loop: the two gathers, the val/loss and val/psnr scalars, vae.train()
ValEnd ==
    /\ pc = "val_for"
    /\ val_idx >= val_len
    /\ writer' = Write(<<Scalar("val/loss", val_loss, global_step),
                         Scalar("val/psnr", val_psnr, global_step)>>)
    /\ training' = TRUE
    /\ pc' = "sync"
    /\ UNCHANGED <<cfg, loader_len, val_len, is_local_main_process, global_step, max_steps,
                   epoch, step_loss, epoch_loss, batch_idx, grad, z_gt, z_pred, loss, params,
                   opt_state, val_idx, val_loss, val_psnr, ckpt_writes, fwd, ld, procs>>

BreakWhenPast == global_step > max_steps
\* if global_step == max_steps: break
BreakDue == global_step = max_steps

\* accelerator.wait_for_everyone(); break or the next batch
Sync ==
    /\ pc = "sync"
    /\ pc' = IF BreakDue THEN "epoch_end" ELSE "for"
    /\ UNCHANGED <<cfg, loader_len, val_len, is_local_main_process, global_step, max_steps,
                   epoch, step_loss, epoch_loss, batch_idx, grad, z_gt, z_pred, loss, params,
                   opt_state, training, val_idx, val_loss, val_psnr, writer, ckpt_writes,
                   fwd, ld, procs>>

NotCleared(buf) == buf
\* epoch_loss.clear(): the list after the call
Cleared(buf) == <<>>

\* after the for loop: epoch += 1; gather; epoch_loss.clear(); add_scalar
EpochEnd ==
    /\ pc = "epoch_end"
    /\ epoch' = epoch + 1
    /\ writer' = Write(<<Scalar("loss/loss_simple_epoch", epoch_loss, global_step)>>)
    /\ epoch_loss' = Cleared(epoch_loss)
    /\ pc' = "while"
    /\ UNCHANGED <<cfg, loader_len, val_len, is_local_main_process, global_step, max_steps,
                   step_loss, batch_idx, grad, z_gt, z_pred, loss, params, opt_state,
                   training, val_idx, val_loss, val_psnr, ckpt_writes, fwd, ld, procs>>

Next ==
    \/ WhileCheck \/ NextBatch \/ LoaderExhausted \/ Forward \/ OptimizerStep \/ CountStep
    \/ LogLoss \/ SaveCheckpoint \/ LogImages \/ ValBegin \/ ValBatch \/ ValEnd \/ Sync
    \/ EpochEnd

Spec == Init /\ [][Next]_vars

\* one process runs its statements one after the other and never pauses for ever
FairSpec == Spec /\ WF_vars(Next)

\* ------------------------------------ the forward pass, one block at a time
\* main() at rest: the state of the loop while a forward pass or a load is followed
LoopAtRest ==
    /\ pc = "idle"
    /\ cfg = [train_steps |-> 0, log_every |-> 1, ckpt_every |-> 1, image_every |-> 1,
              val_every |-> 1]
    /\ loader_len = 1 /\ val_len = 1
    /\ is_local_main_process = TRUE
    /\ global_step = 0 /\ max_steps = 0 /\ epoch = 0
    /\ step_loss = <<>> /\ epoch_loss = <<>> /\ batch_idx = 0
    /\ grad = NoTensor /\ z_gt = NoTensor /\ z_pred = NoTensor
    /\ loss = [ok |-> FALSE, src |-> NoTensor.src, params |-> 0]
    /\ params = 0 /\ opt_state = 0 /\ training = TRUE
    /\ val_idx = 0 /\ val_loss = <<>> /\ val_psnr = <<>>
    /\ writer = <<>> /\ ckpt_writes = <<>>

\* the volumes given to the forward pass: (batch, channel, depth, height, width)
FwdInputs ==
    {Tensor(<<b, c, d, h, w>>, Src("fwd", 0, 0, 0), <<>>) :
        b \in {1}, c \in {1, 2}, d \in 1..MaxDim, h \in 1..MaxDim, w \in {8, CropLen}}

InitFwd ==
    /\ LoopAtRest
    /\ ld = LdIdle
    /\ procs = <<>>
    /\ \E x \in FwdInputs :
         fwd = [pc |-> "encoder", i |-> 1, x |-> x, input |-> x, ret |-> <<>>, called |-> <<>>]

\* Encoder.forward: for block in self.blocks: x = block(x)
EncoderBlock ==
    /\ fwd.pc = "encoder"
    /\ fwd.i <= Len(encoder)
    /\ fwd' = [fwd EXCEPT !.x = ApplyBlock(encoder[fwd.i], fwd.x), !.i = fwd.i + 1]
    /\ UNCHANGED <<loop_vars, ld, procs>>

\* Encoder.forward returns: h = self.encoder(x)
EncoderReturn ==
    /\ fwd.pc = "encoder"
    /\ fwd.i > Len(encoder)
    /\ fwd' = [fwd EXCEPT !.x = Via(fwd.x, "encoder"), !.pc = "quant",
                          !.called = Append(fwd.called, "encoder")]
    /\ UNCHANGED <<loop_vars, ld, procs>>

\* encode: z_mu = self.quant_conv_mu(h); return z_mu
EncodeReturn ==
    /\ fwd.pc = "quant"
    /\ LET z_mu == Via(ApplyBlock(quant_conv_mu, fwd.x), "quant_conv_mu")
       IN fwd' = [fwd EXCEPT !.x = z_mu, !.ret = <<z_mu>>, !.pc = "post_quant",
                             !.called = Append(fwd.called, "quant_conv_mu")]
    /\ UNCHANGED <<loop_vars, ld, procs>>

\* decode: z = self.post_quant_conv(z), with z what encode returned
PostQuant ==
    /\ fwd.pc = "post_quant"
    /\ fwd' = [fwd EXCEPT !.x = Via(ApplyBlock(post_quant_conv, fwd.x), "post_quant_conv"),
                          !.pc = "decoder", !.i = 1,
                          !.called = Append(fwd.called, "post_quant_conv")]
    /\ UNCHANGED <<loop_vars, ld, procs>>

\* Decoder.forward: for block in self.blocks: x = block(x)
DecoderBlock ==
    /\ fwd.pc = "decoder"
    /\ fwd.i <= Len(decoder)
    /\ fwd' = [fwd EXCEPT !.x = ApplyBlock(decoder[fwd.i], fwd.x), !.i = fwd.i + 1]
    /\ UNCHANGED <<loop_vars, ld, procs>>

\* Decoder.forward returns: dec = self.decoder(z); return dec
DecodeReturn ==
    /\ fwd.pc = "decoder"
    /\ fwd.i > Len(decoder)
    /\ fwd' = [fwd EXCEPT !.x = Via(fwd.x, "decoder"), !.pc = "done",
                          !.called = Append(fwd.called, "decoder")]
    /\ UNCHANGED <<loop_vars, ld, procs>>

NextFwd ==
    \/ EncoderBlock \/ EncoderReturn \/ EncodeReturn \/ PostQuant \/ DecoderBlock
    \/ DecodeReturn

SpecFwd == InitFwd /\ [][NextFwd]_vars

\* ------------------------------------------- loading weights, one key at a time
\* the state dicts torch.load('vae.pth') is tried on
Sources == {"fresh", "prefixed", "checkpoint"}

\* the keys of a state dict: those of the network itself, or of the wrapper around it
StateDictKeys(of) == IF of = "wrapper" THEN WrappedKeys ELSE FreshKeys

\* vae_state_dict.keys() for each source: a fresh AutoencoderKL's own state dict, the
\* same with every key under 'vae.', and a checkpoint file the training loop wrote
SourceKeys(source) ==
    CASE source = "fresh" -> FreshKeys
      [] source = "prefixed" -> [i \in 1..Len(FreshKeys) |-> <<"vae">> \o FreshKeys[i]]
      [] source = "checkpoint" -> StateDictKeys(Checkpoint.state_dict_of)

InitLoad ==
    /\ LoopAtRest
    /\ fwd = FwdIdle
    /\ procs = <<>>
    /\ \E source \in Sources :
         ld = [pc |-> "remap", i |-> 1, source |-> source, new_state_dict |-> {},
               missing |-> {}, unexpected |-> {}]

\* new_state_dict[k] = v: an entry is <<key, the key its value came from>>
SetItem(d, k, v) == {e \in d : e[1] # k} \cup {<<k, v>>}

\* for key, value in vae_state_dict.items(): one item
RemapItem ==
    /\ ld.pc = "remap"
    /\ ld.i <= Len(SourceKeys(ld.source))
    /\ LET key == SourceKeys(ld.source)[ld.i]
       IN ld' = [ld EXCEPT !.new_state_dict = SetItem(ld.new_state_dict, RemapKey(key), key),
                           !.i = ld.i + 1]
    /\ UNCHANGED <<loop_vars, fwd, procs>>

\* vae.load_state_dict(new_state_dict, strict=True): raises on a missing or unexpected key
LoadStateDict ==
    /\ ld.pc = "remap"
    /\ ld.i > Len(SourceKeys(ld.source))
    /\ LET given == {e[1] : e \in ld.new_state_dict}
           missing == Range(FreshKeys) \ given
           unexpected == given \ Range(FreshKeys)
       IN ld' = [ld EXCEPT !.missing = missing, !.unexpected = unexpected,
                           !.pc = IF missing = {} /\ unexpected = {} THEN "loaded"
                                  ELSE "raised"]
    /\ UNCHANGED <<loop_vars, fwd, procs>>

NextLoad == RemapItem \/ LoadStateDict

SpecLoad == InitLoad /\ [][NextLoad]_vars

\* ------------------------- main() on every process of a distributed launch
\* The loop of main() as each process of the launch runs it, reduced to what decides
\* which collective call a process makes next: its counters and the lengths of its lists.
Ranks == DOMAIN procs
NoCall == [kind |-> "none", line |-> 0, len |-> 0]

\* accelerator.wait_for_everyone() at a line of main(): the process q blocks in the call
wait_for_everyone(q, line) ==
    CHOOSE r \in {[v EXCEPT !.at = [kind |-> "wait_for_everyone", line |-> line, len |-> 0],
                            !.calls = Append(v.calls, line)] : v \in {q}} : TRUE

\* accelerator.gather(torch.tensor(list).unsqueeze(0)) at a line of main(): the process q
\* blocks in the call with a tensor of len values
gather(q, line, len) ==
    CHOOSE r \in {[v EXCEPT !.at = [kind |-> "gather", line |-> line, len |-> len],
                            !.calls = Append(v.calls, line)] : v \in {q}} : TRUE

\* main() up to the loop on the process of a rank; the first process is the local main one
ProcStart(rank) ==
    [pc |-> "while", is_local_main_process |-> rank = 1, global_step |-> 0, epoch |-> 0,
     batch_idx |-> 0, val_idx |-> 0, step_loss |-> 0, epoch_loss |-> 0, val_loss |-> 0,
     writes |-> 0, at |-> NoCall, calls |-> <<>>]

\* every process of the launch gets the same configuration and loaders of the same length
InitPar ==
    /\ pc = "idle"
    /\ cfg \in [train_steps : {0, 1, MaxSteps}, log_every : Everys, ckpt_every : {MaxEvery},
                image_every : {MaxEvery}, val_every : Everys]
    /\ loader_len \in {1, MaxBatches}
    /\ val_len \in {1, MaxValBatches}
    /\ is_local_main_process = TRUE
    /\ global_step = 0 /\ max_steps = cfg.train_steps /\ epoch = 0
    /\ step_loss = <<>> /\ epoch_loss = <<>> /\ batch_idx = 0
    /\ grad = NoTensor /\ z_gt = NoTensor /\ z_pred = NoTensor
    /\ loss = [ok |-> FALSE, src |-> NoTensor.src, params |-> 0]
    /\ params = 0 /\ opt_state = 0 /\ training = TRUE
    /\ val_idx = 0 /\ val_loss = <<>> /\ val_psnr = <<>>
    /\ writer = <<>> /\ ckpt_writes = <<>>
    /\ fwd = FwdIdle /\ ld = LdIdle
    /\ \E N \in 1..MaxProcs : procs = [rank \in 1..N |-> ProcStart(rank)]

\* a process runs only while it is not blocked in a collective call
Running(p) == p \in Ranks /\ procs[p].at = NoCall

\* while global_step < max_steps:
ProcWhile(p) ==
    /\ Running(p) /\ procs[p].pc = "while"
    /\ procs' = [procs EXCEPT ![p] =
                    IF @.global_step < max_steps
                    THEN [@ EXCEPT !.pc = "for", !.batch_idx = 0]
                    ELSE [@ EXCEPT !.pc = "done"]]
    /\ UNCHANGED <<loop_vars, fwd, ld>>

\* for grad in loader: the next batch
ProcNextBatch(p) ==
    /\ Running(p) /\ procs[p].pc = "for"
    /\ procs[p].batch_idx < loader_len
    /\ procs' = [procs EXCEPT ![p] = [@ EXCEPT !.pc = "forward", !.batch_idx = @ + 1]]
    /\ UNCHANGED <<loop_vars, fwd, ld>>

\* for grad in loader: the loader is exhausted
ProcExhausted(p) ==
    /\ Running(p) /\ procs[p].pc = "for"
    /\ procs[p].batch_idx >= loader_len
    /\ procs' = [procs EXCEPT ![p] = [@ EXCEPT !.pc = "epoch_end"]]
    /\ UNCHANGED <<loop_vars, fwd, ld>>

\* forward pass, backward, opt_vae.step(); accelerator.wait_for_everyone()
ProcTrainStep(p) ==
    /\ Running(p) /\ procs[p].pc = "forward"
    /\ procs' = [procs EXCEPT ![p] = wait_for_everyone([@ EXCEPT !.pc = "count"], 293)]
    /\ UNCHANGED <<loop_vars, fwd, ld>>

\* global_step += 1; step_loss.append(...); epoch_loss.append(...)
ProcCount(p) ==
    /\ Running(p) /\ procs[p].pc = "count"
    /\ procs' = [procs EXCEPT ![p] = [@ EXCEPT !.pc = "log", !.global_step = @ + 1,
                                                !.step_loss = @ + 1, !.epoch_loss = @ + 1]]
    /\ UNCHANGED <<loop_vars, fwd, ld>>

StepLossGatherOnMain(p) ==
    /\ procs[p].global_step % cfg.log_every = 0 /\ procs[p].global_step > 0
    /\ procs[p].is_local_main_process
\* the guard of the gather of step_loss: global_step % log_every == 0 and global_step > 0
StepLossGather(p) == procs[p].global_step % cfg.log_every = 0 /\ procs[p].global_step > 0

\* if log is due: accelerator.gather(step_loss)
ProcLog(p) ==
    /\ Running(p) /\ procs[p].pc = "log"
    /\ procs' = [procs EXCEPT ![p] =
                    IF StepLossGather(p)
                    THEN gather([@ EXCEPT !.pc = "logged"], 304, @.step_loss)
                    ELSE [@ EXCEPT !.pc = "local"]]
    /\ UNCHANGED <<loop_vars, fwd, ld>>

\* step_loss.clear(); if is_local_main_process: writer.add_scalar(...)
ProcLogged(p) ==
    /\ Running(p) /\ procs[p].pc = "logged"
    /\ procs' = [procs EXCEPT ![p] =
                    [@ EXCEPT !.pc = "local", !.step_loss = 0,
                              !.writes = IF procs[p].is_local_main_process THEN @ + 1 ELSE @]]
    /\ UNCHANGED <<loop_vars, fwd, ld>>

\* the checkpoint and image blocks: what they write, the local main process writes
ProcLocal(p) ==
    /\ Running(p) /\ procs[p].pc = "local"
    /\ LET g == procs[p].global_step
           saves == IF g % cfg.ckpt_every = 0 /\ g > 0 THEN 1 ELSE 0
           images == IF g % cfg.image_every = 0 \/ g = 1 THEN 3 ELSE 0
       IN procs' = [procs EXCEPT ![p] =
                       [@ EXCEPT !.pc = "val",
                                 !.writes = IF procs[p].is_local_main_process
                                            THEN @ + saves + images ELSE @]]
    /\ UNCHANGED <<loop_vars, fwd, ld>>

\* if global_step % val_every == 0 and global_step > 0: val_loss = []; ...
ProcVal(p) ==
    /\ Running(p) /\ procs[p].pc = "val"
    /\ procs' = [procs EXCEPT ![p] =
                    IF @.global_step % cfg.val_every = 0 /\ @.global_step > 0
                    THEN [@ EXCEPT !.pc = "val_for", !.val_idx = 0, !.val_loss = 0]
                    ELSE [@ EXCEPT !.pc = "sync"]]
    /\ UNCHANGED <<loop_vars, fwd, ld>>

\* for val_grad in val_loader: one batch; the local main process adds three images
ProcValBatch(p) ==
    /\ Running(p) /\ procs[p].pc = "val_for"
    /\ procs[p].val_idx < val_len
    /\ procs' = [procs EXCEPT ![p] =
                    [@ EXCEPT !.val_idx = @ + 1, !.val_loss = @ + 1,
                              !.writes = IF procs[p].is_local_main_process THEN @ + 3 ELSE @]]
    /\ UNCHANGED <<loop_vars, fwd, ld>>

\* avg_val_loss = accelerator.gather(val_loss)
ProcValGatherLoss(p) ==
    /\ Running(p) /\ procs[p].pc = "val_for"
    /\ procs[p].val_idx >= val_len
    /\ procs' = [procs EXCEPT ![p] = gather([@ EXCEPT !.pc = "val_psnr"], 432, @.val_loss)]
    /\ UNCHANGED <<loop_vars, fwd, ld>>

\* avg_val_psnr = accelerator.gather(val_psnr)
ProcValGatherPsnr(p) ==
    /\ Running(p) /\ procs[p].pc = "val_psnr"
    /\ procs' = [procs EXCEPT ![p] = gather([@ EXCEPT !.pc = "val_done"], 434, @.val_loss)]
    /\ UNCHANGED <<loop_vars, fwd, ld>>

\* if is_local_main_process: the val/loss and val/psnr scalars
ProcValDone(p) ==
    /\ Running(p) /\ procs[p].pc = "val_done"
    /\ procs' = [procs EXCEPT ![p] =
                    [@ EXCEPT !.pc = "sync",
                              !.writes = IF procs[p].is_local_main_process THEN @ + 2 ELSE @]]
    /\ UNCHANGED <<loop_vars, fwd, ld>>

\* accelerator.wait_for_everyone() at the end of the loop body
ProcSync(p) ==
    /\ Running(p) /\ procs[p].pc = "sync"
    /\ procs' = [procs EXCEPT ![p] = wait_for_everyone([@ EXCEPT !.pc = "break"], 444)]
    /\ UNCHANGED <<loop_vars, fwd, ld>>

\* if global_step == max_steps: break
ProcBreak(p) ==
    /\ Running(p) /\ procs[p].pc = "break"
    /\ procs' = [procs EXCEPT ![p] =
                    [@ EXCEPT !.pc = IF procs[p].global_step = max_steps THEN "epoch_end"
                                     ELSE "for"]]
    /\ UNCHANGED <<loop_vars, fwd, ld>>

\* after the for loop: epoch += 1; accelerator.gather(epoch_loss)
ProcEpochEnd(p) ==
    /\ Running(p) /\ procs[p].pc = "epoch_end"
    /\ procs' = [procs EXCEPT ![p] =
                    gather([@ EXCEPT !.pc = "epoch_done", !.epoch = @ + 1], 451, @.epoch_loss)]
    /\ UNCHANGED <<loop_vars, fwd, ld>>

\* epoch_loss.clear(); if is_local_main_process: writer.add_scalar(...)
ProcEpochDone(p) ==
    /\ Running(p) /\ procs[p].pc = "epoch_done"
    /\ procs' = [procs EXCEPT ![p] =
                    [@ EXCEPT !.pc = "while", !.epoch_loss = 0,
                              !.writes = IF procs[p].is_local_main_process THEN @ + 1 ELSE @]]
    /\ UNCHANGED <<loop_vars, fwd, ld>>

\* a collective call returns: every process of the launch is blocked in the same call,
\* with tensors of the same shape
Rendezvous ==
    /\ Ranks # {}
    /\ \A p \in Ranks : procs[p].at # NoCall
    /\ \A p, q \in Ranks : procs[p].at = procs[q].at
    /\ procs' = [p \in Ranks |-> [procs[p] EXCEPT !.at = NoCall]]
    /\ UNCHANGED <<loop_vars, fwd, ld>>

Proc(p) ==
    \/ ProcWhile(p) \/ ProcNextBatch(p) \/ ProcExhausted(p) \/ ProcTrainStep(p)
    \/ ProcCount(p) \/ ProcLog(p) \/ ProcLogged(p) \/ ProcLocal(p) \/ ProcVal(p)
    \/ ProcValBatch(p) \/ ProcValGatherLoss(p) \/ ProcValGatherPsnr(p) \/ ProcValDone(p)
    \/ ProcSync(p) \/ ProcBreak(p) \/ ProcEpochEnd(p) \/ ProcEpochDone(p)

NextPar == Rendezvous \/ \E p \in Ranks : Proc(p)

SpecPar == InitPar /\ [][NextPar]_vars
\* every process that can run does run, and a collective that can return does return
FairSpecPar == SpecPar /\ WF_vars(Rendezvous) /\ \A p \in 1..MaxProcs : WF_vars(Proc(p))


\* ================================================================== claims
\* the steps whose checkpoint block (lines 309-314) has been passed
CkptPassed(s) == s < global_step \/ (s = global_step /\ pc \notin {"log", "ckpt"})

\* the torch.save calls made at step s
WritesAt(s) == {i \in 1..Len(ckpt_writes) : ckpt_writes[i].step = s}

RECURSIVE Zeros(_)
Zeros(k) == IF k = 0 THEN "" ELSE "0" \o Zeros(k - 1)
\* the decimal digits of s, zero-padded on the left to exactly seven digits
SevenDigits(s) == CHOOSE t \in {Zeros(k) \o Str(s) : k \in 0..7} : Len(t) = 7

\* C1: a checkpoint file is written at global step s if and only if s > 0 and s is a
\* multiple of ckpt_every, only by the local main process, after the optimizer update of
\* step s (it holds the weights after s updates), under the 7-digit zero-padded value of
\* s, so that no two steps write the same file.
C1_CheckpointAtIntervals ==
    /\ \A i \in 1..Len(ckpt_writes) :
         LET w == ckpt_writes[i]
         IN /\ is_local_main_process
            /\ w.step > 0 /\ w.step % cfg.ckpt_every = 0
            /\ w.checkpoint.sections["model"] = w.step
            /\ w.path = "checkpoints/" \o SevenDigits(w.step) \o "_gradvae.pt"
    /\ \A s \in 1..global_step :
         (CkptPassed(s) /\ is_local_main_process /\ s % cfg.ckpt_every = 0)
            => Cardinality(WritesAt(s)) = 1
    /\ \A i, j \in 1..Len(ckpt_writes) :
         ckpt_writes[i].step # ckpt_writes[j].step => ckpt_writes[i].path # ckpt_writes[j].path

\* C1 witness: a finished run that wrote a checkpoint at one step and none at another
C1_Witness ==
    /\ pc = "done" /\ cfg.ckpt_every = 2 /\ global_step = 3
    /\ Len(ckpt_writes) = 1 /\ ckpt_writes[1].step = 2

C3_OnlyOptimizerMutates ==
    [][/\ (params' # params => pc = "optimize" /\ params' = params + 1)
       /\ (global_step' # global_step =>
             global_step' = global_step + 1 /\ params' = global_step' /\ params' = params)
       /\ (pc \in {"log", "ckpt", "image", "val", "val_for"} => params' = params)]_vars

\* C3 witness: logging, a checkpoint, images and a validation pass have all run in a step
\* after the second update
C3_Witness ==
    /\ pc = "sync" /\ global_step = 2 /\ params = 2 /\ is_local_main_process
    /\ cfg.log_every = 2 /\ cfg.ckpt_every = 2 /\ cfg.image_every = 2 /\ cfg.val_every = 2
    /\ Len(val_loss) = val_len /\ Len(ckpt_writes) = 1

\* C4: for every train_steps >= 0 and every loader with at least one batch the loop
\* terminates: it reaches the final state, global_step never exceeds max_steps, equals
\* max_steps at the end, and exactly max_steps optimizer updates have been performed.
C4_Terminates ==
    /\ [](global_step <= max_steps)
    /\ [](pc = "done" => global_step = max_steps /\ params = max_steps
                         /\ opt_state = max_steps)
    /\ <>(pc = "done")

\* C4 witness: a run that ended after crossing several epochs
C4_Witness == pc = "done" /\ max_steps = 3 /\ epoch = 3 /\ loader_len = 1 /\ params = 3

\* the sigma head the encode docstring describes, applied to the encoder output of x
LatentSigma(x) == Via(ApplyBlock(quant_conv_log_sigma, EncoderForward(x)), "quant_conv_log_sigma")
\* the latent mean of x
LatentMu(x) == Via(ApplyBlock(quant_conv_mu, EncoderForward(x)), "quant_conv_mu")
\* the validation batch number i (0-based) as the loop crops it
ValInputAt(i) ==
    Tensor(CropLast(Rearrange(Batch), ValCropStart, ValCropEnd),
           Src("val", 0, i, ValCropStart), <<>>)

\* C5: in every training step and every validation step the tensor given to decode is
\* a sample z_mu + eps * z_sigma (AutoencoderKL.sampling) of the Gaussian the encoder
\* produced for that input, not the latent mean itself.
C5_DecodesSample ==
    /\ pc = "optimize" => z_gt = sampling(LatentMu(grad), LatentSigma(grad))
    /\ (pc = "val_for" /\ val_idx > 0) =>
          z_gt = sampling(LatentMu(ValInputAt(val_idx - 1)), LatentSigma(ValInputAt(val_idx - 1)))

\* C6: encode returns both latent heads as a pair (z_mu, z_sigma): quant_conv_mu and
\* quant_conv_log_sigma are both applied to the encoder output and both results returned.
C6_EncodeReturnsPair ==
    fwd.pc = "post_quant" =>
        /\ Len(fwd.ret) = 2
        /\ "quant_conv_mu" \in Range(fwd.called)
        /\ "quant_conv_log_sigma" \in Range(fwd.called)

\* the blocks of one type in a ModuleList
BlocksOfType(blocks, type) == {i \in 1..Len(blocks) : blocks[i].type = type}
\* depth, height and width of a tensor
Spatial(x) == <<x.shape[3], x.shape[4], x.shape[5]>>
AllMultiplesOf8(x) == \A k \in 1..3 : Spatial(x)[k] % 8 = 0

\* C7: with ch_mult of length 4 the encoder applies exactly 3 Downsample blocks, each
\* mapping a spatial size n to floor(n/2), and the decoder exactly 3 Upsample blocks, each
\* doubling it; for every 1-channel volume whose spatial sizes are multiples of 8 encode
\* returns a 3-channel latent of size/8 and decode(encode(x)) has the shape of x.
C7_ShapesRoundTrip ==
    /\ [](/\ Len(ch_mult) = 4
          /\ Cardinality(BlocksOfType(encoder, "Downsample")) = 3
          /\ Cardinality(BlocksOfType(decoder, "Upsample")) = 3
          /\ BlocksOfType(encoder, "Upsample") = {} /\ BlocksOfType(decoder, "Downsample") = {}
          /\ (fwd.input.shape[2] = 1 /\ AllMultiplesOf8(fwd.input)) =>
                /\ fwd.x.ok
                /\ fwd.pc = "post_quant" =>
                      /\ fwd.ret = <<fwd.x>>
                      /\ fwd.x.shape = <<fwd.input.shape[1], 3, fwd.input.shape[3] \div 8,
                                         fwd.input.shape[4] \div 8, fwd.input.shape[5] \div 8>>
                /\ fwd.pc = "done" => fwd.x.shape = fwd.input.shape)
    /\ [][/\ (fwd.pc = "encoder" /\ fwd'.i = fwd.i + 1 /\ fwd'.x.ok
                /\ encoder[fwd.i].type = "Downsample") =>
                \A k \in 1..3 : Spatial(fwd'.x)[k] = Spatial(fwd.x)[k] \div 2
          /\ (fwd.pc = "decoder" /\ fwd'.i = fwd.i + 1 /\ fwd'.x.ok
                /\ decoder[fwd.i].type = "Upsample") =>
                \A k \in 1..3 : Spatial(fwd'.x)[k] = 2 * Spatial(fwd.x)[k]]_vars

\* C7 witness: a 1-channel 16 x 8 x 128 volume has come back from decode with its own shape
C7_Witness ==
    /\ fwd.pc = "done" /\ fwd.x.ok
    /\ fwd.input.shape = <<1, 1, 16, 8, 128>>
    /\ fwd.x.shape = fwd.input.shape

\* C8: the keys of a checkpoint the loop wrote, with one leading 'vae.' removed and every
\* other key kept, are exactly the keys of a fresh AutoencoderKL, so
\* load_state_dict(strict=True) accepts the checkpoint.
C8_CheckpointLoadsBack ==
    (ld.source = "checkpoint" /\ ld.pc # "remap") =>
        /\ ld.pc = "loaded"
        /\ {e[1] : e \in ld.new_state_dict} = Range(FreshKeys)

\* the writer's records with a tag and a step
Records(tag, s) == {i \in 1..Len(writer) : writer[i].tag = tag /\ writer[i].step = s}
\* the steps whose validation block (lines 359-442) has been passed
ValPassed(s) == s < global_step \/ (s = global_step /\ pc \notin {"log", "ckpt", "image", "val", "val_for"})
\* a list of per-batch values holds one value for each of the first n validation batches
OnePerBatch(vals, n) ==
    /\ Len(vals) = n
    /\ \A i \in 1..n : vals[i].ok /\ vals[i].src = Src("val", 0, i - 1, ValCropStart)

\* C9: a validation pass runs at global step s if and only if s > 0 and s is a multiple
\* of val_every; it visits every batch of the validation loader exactly once, appends one
\* loss and one PSNR value per batch, then writes val/loss and val/psnr exactly once,
\* tagged s, on the local main process only; the next training step starts only after
\* the pass has finished.
C9_ValidationPeriodicComplete ==
    /\ [](/\ pc = "val_for" =>
                /\ global_step > 0 /\ global_step % cfg.val_every = 0
                /\ val_idx <= val_len
                /\ OnePerBatch(val_loss, val_idx) /\ OnePerBatch(val_psnr, val_idx)
          /\ \A s \in 1..global_step :
                /\ \A tag \in {"val/loss", "val/psnr"} :
                      /\ Cardinality(Records(tag, s)) <= 1
                      /\ Records(tag, s) # {} =>
                             is_local_main_process /\ s % cfg.val_every = 0
                      /\ (ValPassed(s) /\ is_local_main_process /\ s % cfg.val_every = 0)
                             => Records(tag, s) # {}
                /\ \A i \in Records("val/loss", s) : OnePerBatch(writer[i].vals, val_len)
                /\ \A i \in Records("val/psnr", s) : OnePerBatch(writer[i].vals, val_len))
    /\ [][/\ pc = "val" =>
                /\ pc' = "val_for" <=> (global_step > 0 /\ global_step % cfg.val_every = 0)
                /\ pc' \in {"val_for", "sync"}
          /\ pc = "val_for" =>
                /\ pc' \in {"val_for", "sync"}
                /\ pc' = "sync" => OnePerBatch(val_loss, val_len) /\ OnePerBatch(val_psnr, val_len)
                /\ global_step' = global_step /\ params' = params /\ batch_idx' = batch_idx
          /\ pc' = "forward" => pc = "for"]_vars

\* C9 witness: the second step's validation pass over two batches has finished and its
\* two scalars are written
C9_Witness ==
    /\ pc = "sync" /\ global_step = 2 /\ cfg.val_every = 2 /\ val_len = 2
    /\ is_local_main_process
    /\ Len(val_loss) = 2 /\ Len(val_psnr) = 2
    /\ Cardinality(Records("val/loss", 2)) = 1 /\ Cardinality(Records("val/psnr", 2)) = 1
    /\ Records("val/loss", 1) = {}

\* the steps whose loss-logging block (lines 301-307) has been passed
LogPassed(s) == s < global_step \/ (s = global_step /\ pc # "log")
\* vals are the training losses of steps first .. first + Len(vals) - 1, in order: the
\* loss of step j is computed from the weights after j - 1 updates
LossesOfSteps(vals, first) ==
    \A k \in 1..Len(vals) :
        vals[k].ok /\ vals[k].src.set = "train" /\ vals[k].params = first + k - 2

\* C10: loss/loss_simple_step is written at global step s if and only if s > 0 and s is
\* a multiple of log_every (by the local main process); when it is computed step_loss
\* holds exactly the log_every losses of steps s-log_every+1 .. s, in order, and the
\* buffer is empty right after; between training steps the buffer length equals
\* global_step mod log_every.
C10_StepLossWindow ==
    /\ [](/\ \A s \in 1..global_step :
                LET recs == Records("loss/loss_simple_step", s)
                IN /\ Cardinality(recs) <= 1
                   /\ recs # {} => is_local_main_process /\ s % cfg.log_every = 0
                   /\ (LogPassed(s) /\ is_local_main_process /\ s % cfg.log_every = 0)
                         => recs # {}
                   /\ \A i \in recs :
                         /\ Len(writer[i].vals) = cfg.log_every
                         /\ LossesOfSteps(writer[i].vals, s - cfg.log_every + 1)
          /\ pc # "log" => Len(step_loss) = global_step % cfg.log_every
          /\ LossesOfSteps(step_loss, global_step - Len(step_loss) + 1))
    /\ [][(pc = "log" /\ global_step % cfg.log_every = 0) =>
             /\ Len(step_loss) = cfg.log_every
             /\ LossesOfSteps(step_loss, global_step - cfg.log_every + 1)
             /\ step_loss' = <<>>]_vars

\* C10 witness: the scalar of step 2 has just been written from the losses of steps 1
\* and 2 and the buffer is empty
C10_Witness ==
    /\ pc = "ckpt" /\ global_step = 2 /\ cfg.log_every = 2 /\ is_local_main_process
    /\ step_loss = <<>>
    /\ \E i \in Records("loss/loss_simple_step", 2) : Len(writer[i].vals) = 2
    /\ Records("loss/loss_simple_step", 1) = {}

\* the positions in the writer of the records with a tag, in the order written
RECURSIVE TagPositions(_, _)
TagPositions(tag, n) ==
    IF n = 0 THEN <<>>
    ELSE IF writer[n].tag = tag THEN Append(TagPositions(tag, n - 1), n)
         ELSE TagPositions(tag, n - 1)
EpochRecords == TagPositions("loss/loss_simple_epoch", Len(writer))
\* the step at which the pass before the k-th epoch record ended (0 before the first)
EpochStart(k) == IF k = 1 THEN 0 ELSE writer[EpochRecords[k - 1]].step

\* C11: every pass over the training loader, ended by exhaustion or by the break at
\* global_step == max_steps, is followed by exactly one loss/loss_simple_epoch scalar
\* computed from exactly the losses of the steps of that pass (a non-empty buffer), after
\* which epoch_loss is empty and epoch has grown by one; no loss is counted in two
\* epochs and none is left out.
C11_EpochLossCoversEveryPass ==
    /\ [](/\ Len(EpochRecords) = (IF is_local_main_process THEN epoch ELSE 0)
          /\ \A k \in 1..Len(EpochRecords) :
                LET r == writer[EpochRecords[k]]
                IN /\ r.vals # <<>>
                   /\ Len(r.vals) = r.step - EpochStart(k)
                   /\ LossesOfSteps(r.vals, EpochStart(k) + 1)
                   /\ \A i \in 1..Len(r.vals) : r.vals[i].src.epoch = k - 1
          /\ LossesOfSteps(epoch_loss, global_step - Len(epoch_loss) + 1)
          /\ \A i \in 1..Len(epoch_loss) : epoch_loss[i].src.epoch = epoch
          /\ (is_local_main_process /\ Len(EpochRecords) > 0) =>
                writer[EpochRecords[Len(EpochRecords)]].step = global_step - Len(epoch_loss)
          /\ pc \in {"while", "done"} => epoch_loss = <<>>
          /\ pc = "done" => epoch > 0 \/ max_steps = 0)
    /\ [][/\ pc = "epoch_end" =>
                /\ epoch_loss # <<>>
                /\ Len(epoch_loss) = batch_idx
                /\ epoch_loss' = <<>> /\ epoch' = epoch + 1
                /\ is_local_main_process =>
                      writer' = Append(writer, [kind |-> "scalar", tag |-> "loss/loss_simple_epoch",
                                                step |-> global_step, vals |-> epoch_loss,
                                                imgs |-> <<>>])
          /\ pc' = "epoch_end" => (batch_idx = loader_len \/ global_step = max_steps)
          /\ pc # "epoch_end" => epoch' = epoch
          /\ (pc = "for" /\ pc' # "forward") => pc' = "epoch_end"
          /\ (pc = "sync" /\ pc' # "for") => pc' = "epoch_end"]_vars

\* C11 witness: a run of three steps over a loader of two batches has ended; its last
\* pass was cut by the break after one step and still got its scalar
C11_Witness ==
    /\ pc = "done" /\ max_steps = 3 /\ loader_len = 2 /\ epoch = 2 /\ is_local_main_process
    /\ Len(EpochRecords) = 2
    /\ Len(writer[EpochRecords[1]].vals) = 2
    /\ Len(writer[EpochRecords[2]].vals) = 1 /\ writer[EpochRecords[2]].step = 3

\* C12: the network's mode matches the phase: every validation forward pass, on every
\* batch of a validation loader of any length, runs in eval mode, and every training
\* forward pass and optimizer step runs in train mode.
C12_ModeMatchesPhase ==
    /\ (pc = "val_for" /\ val_idx < val_len) => training = FALSE
    /\ pc \in {"forward", "optimize"} => training = TRUE

\* the steps whose image block (lines 317-356) has been passed
ImagePassed(s) == s < global_step \/ (s = global_step /\ pc \notin {"log", "ckpt", "image"})
SliceTags == {"slice/x", "slice/y", "slice/z"}
\* the training step in which a batch was drawn: passes before the last are whole
StepOf(src) == src.epoch * loader_len + src.idx + 1
\* a slice image holds the middle slices of the reconstruction and of the batch of step s
SlicesOfStep(r, s) ==
    /\ Len(r.imgs) = 2
    /\ \A k \in 1..2 :
          /\ r.imgs[k].ok /\ Len(r.imgs[k].shape) = 2
          /\ r.imgs[k].src.set = "train" /\ StepOf(r.imgs[k].src) = s
    /\ r.imgs[1].ops = decode(encode(NoTensor)).ops
    /\ r.imgs[2].ops = <<>>

\* C14: the slice/x, slice/y and slice/z images are written at global step s if and only
\* if s = 1 or s is a multiple of image_every, by the local main process only, each once,
\* tagged s and built from the training batch and the reconstruction of step s itself,
\* never from a validation batch or an earlier step; writing them changes neither
\* global_step nor the loss buffers.
C14_ImagesFromCurrentStep ==
    /\ [](/\ \A s \in 1..global_step : \A tag \in SliceTags :
                ImagePassed(s) =>
                    Cardinality(Records(tag, s)) =
                        (IF is_local_main_process /\ (s = 1 \/ s % cfg.image_every = 0)
                         THEN 1 ELSE 0)
          /\ \A i \in 1..Len(writer) :
                writer[i].tag \in SliceTags =>
                    /\ writer[i].step \in 1..global_step
                    /\ SlicesOfStep(writer[i], writer[i].step))
    /\ [][pc = "image" =>
            /\ grad.src.set = "train" /\ StepOf(grad.src) = global_step
            /\ z_pred = decode(encode(grad))
            /\ loss.src = grad.src /\ loss.params = global_step - 1
            /\ UNCHANGED <<global_step, step_loss, epoch_loss, val_loss, val_psnr, params>>
            /\ writer' # writer <=>
                  (is_local_main_process /\ (global_step = 1 \/ global_step % cfg.image_every = 0))
            /\ \A i \in Len(writer) + 1 .. Len(writer') :
                  writer'[i].tag \in SliceTags /\ writer'[i].step = global_step]_vars

\* C14 witness: the main process has logged images at step 1, which is not a multiple of
\* image_every, and at step 2 in the step after a validation pass
C14_Witness ==
    /\ is_local_main_process /\ cfg.image_every = 2 /\ cfg.val_every = 1
    /\ global_step = 2 /\ pc = "val"
    /\ \A tag \in SliceTags : Cardinality(Records(tag, 1)) = 1 /\ Cardinality(Records(tag, 2)) = 1
    /\ \E i \in 1..Len(writer) : writer[i].tag = "val/x" /\ writer[i].step = 1

IsPrefix(a, b) == Len(a) <= Len(b) /\ \A i \in 1..Len(a) : a[i] = b[i]
Blocked(p) == p \in Ranks /\ procs[p].at # NoCall
AllDone == Ranks # {} /\ \A p \in Ranks : procs[p].pc = "done" /\ procs[p].at = NoCall

\* C13: with N >= 1 processes on the same configuration and loaders of the same length,
\* no process blocks forever in a collective call: the processes make the same gather and
\* wait_for_everyone calls in the same order and the same number of times, two blocked
\* processes are always blocked in the same call with tensors of the same shape, no
\* process finishes while another is blocked, every blocked process is released, and all
\* processes leave the loop at the same global_step; only the local main process writes.
C13_CollectivesMatch ==
    /\ [](\A p, q \in Ranks :
            /\ IsPrefix(procs[p].calls, procs[q].calls) \/ IsPrefix(procs[q].calls, procs[p].calls)
            /\ (Blocked(p) /\ Blocked(q)) => procs[p].at = procs[q].at
            /\ Blocked(p) => procs[q].pc # "done"
            /\ (procs[p].pc = "done" /\ procs[q].pc = "done") =>
                  /\ procs[p].calls = procs[q].calls
                  /\ procs[p].global_step = max_steps /\ procs[q].global_step = max_steps
                  /\ procs[p].epoch = procs[q].epoch
            /\ procs[p].is_local_main_process \/ procs[p].writes = 0)
    /\ \A p \in 1..MaxProcs : Blocked(p) ~> ~Blocked(p)
    /\ <>AllDone

\* C13 witness: a launch of several processes has finished a run in which every
\* collective call of the loop was made, the last pass being cut by the break
C13_Witness ==
    /\ AllDone /\ Len(procs) = MaxProcs
    /\ max_steps = MaxSteps /\ loader_len = MaxBatches
    /\ cfg.log_every = MaxEvery /\ cfg.val_every = MaxEvery
    /\ \A p \in Ranks :
          /\ \A line \in {293, 304, 432, 434, 444, 451} :
                \E i \in 1..Len(procs[p].calls) : procs[p].calls[i] = line
          /\ procs[p].epoch = 2
    /\ procs[1].writes > 0

====
